---- MODULE Spec2Model ----
(***************************************************************************)
(* Model of the Excel table service (src/utils.py, src/main.py).           *)
(*                                                                         *)
(* Three specifications share this module:                                 *)
(*   SpecPipeline  one processing run (process_excel_file) over a grid     *)
(*                 drawn from a bounded family of grids;                   *)
(*   SpecClean     the cleaner (clean_up_table, trim_blank_edges) applied  *)
(*                 to every block up to MaxBlockCells cells;               *)
(*   Spec          the HTTP layer: the upload coroutine and a query        *)
(*                 thread interleaved over the process-wide dict db.       *)
(*                                                                         *)
(* A DataFrame is a record [index, columns, values]: index and columns are *)
(* the label sequences, values the row-major cell matrix.  Labels and      *)
(* positions are 0-based as in pandas; TLA+ sequences are 1-based, so the  *)
(* cell at position (i, j) is values[i+1][j+1].  A cell is a record        *)
(* [na, s]: pd.NA is NA, the string v is Str(v).                           *)
(***************************************************************************)
EXTENDS Integers, Sequences, FiniteSets, TLC

VARIABLES
    grid,       \* pipeline: the decoded sheet, a matrix of strings
    pc,         \* pipeline: "start" -> "found" -> "done"
    raw,        \* pipeline: what find_tables_in_spreadsheet returned, with its loop log
    final,      \* pipeline: what process_excel_file returned
    block,      \* cleaner: the input DataFrame
    cpc,        \* cleaner: "start" -> "once" -> "twice", or "trimmed"
    cleaned,    \* cleaner: clean_up_table(block)
    recleaned,  \* cleaner: clean_up_table(cleaned)
    trimArgs,   \* cleaner: the (by_rows, max_blank_streak) of the trim_blank_edges call
    trimmed,    \* cleaner: trim_blank_edges(block, by_rows, max_blank_streak)
    db,         \* server: the module-level dict of main.py
    upl,        \* server: the upload_excel coroutine
    q,          \* server: the query running in the thread pool
    hist        \* server: history of completed uploads

vars == <<grid, pc, raw, final, block, cpc, cleaned, recleaned, trimArgs, trimmed,
          db, upl, q, hist>>
pipeVars == <<grid, pc, raw, final>>
cleanVars == <<block, cpc, cleaned, recleaned, trimArgs, trimmed>>
serverVars == <<db, upl, q, hist>>

-----------------------------------------------------------------------------
(* Python values *)

\* The list of exact table titles to anchor on.
TABLE_TITLES ==
    <<"INITIAL INVESTMENT", "CASHFLOW DETAILS", "DISCOUNT RATE", "WORKING CAPITAL",
      "GROWTH RATES", "SALVAGE VALUE", "OPERATING CASHFLOWS",
      "BOOK VALUE & DEPRECIATION", "Investment Measures">>

Range(s) == {s[i] : i \in DOMAIN s}

NA == [na |-> TRUE, s |-> ""]
Str(v) == [na |-> FALSE, s |-> v]

\* An insertion-ordered dict: keys in insertion order, val the mapping.
EmptyDict == [keys |-> <<>>, val |-> <<>>]
HasKey(d, k) == k \in Range(d.keys)
\* d[k] = v: a new key is appended, an existing key keeps its position.
DictSet(d, k, v) ==
    [keys |-> IF HasKey(d, k) THEN d.keys ELSE Append(d.keys, k),
     val  |-> [x \in Range(d.keys) \cup {k} |-> IF x = k THEN v ELSE d.val[x]]]

\* s[a:b] on a list, for 0 <= a and 0 <= b.
PySlice(s, a, b) ==
    LET hi == IF b < Len(s) THEN b ELSE Len(s)
    IN  IF a >= hi THEN <<>> ELSE SubSeq(s, a + 1, hi)

\* The positions i of range(n) with ok[i], ascending: "for i in range(n): if ok: append(i)".
RECURSIVE KeepLoop(_, _, _)
KeepLoop(i, n, ok) ==
    IF i >= n THEN <<>>
    ELSE (IF ok[i] THEN <<i>> ELSE <<>>) \o KeepLoop(i + 1, n, ok)

\* list.sort() on a list of distinct integers, given as the set of its items.
RECURSIVE SortInts(_)
SortInts(S) ==
    IF S = {} THEN <<>>
    ELSE LET m == CHOOSE x \in S : \A y \in S : x <= y
         IN  <<m>> \o SortInts(S \ {m})

\* Tuple order of (row, col, title); no two items of title_positions share (row, col).
PosLess(a, b) == a[1] < b[1] \/ (a[1] = b[1] /\ a[2] < b[2])

\* list.sort() on a list of (row, col, title) tuples, given as the set of its items.
RECURSIVE SortPositions(_)
SortPositions(S) ==
    IF S = {} THEN <<>>
    ELSE LET m == CHOOSE x \in S : \A y \in S \ {x} : PosLess(x, y)
         IN  <<m>> \o SortPositions(S \ {m})

-----------------------------------------------------------------------------
(* DataFrame *)

NRows(df) == Len(df.index)
NCols(df) == Len(df.columns)
At(df, i, j) == df.values[i + 1][j + 1]

\* pd.read_excel(..., header=None, dtype=str).fillna(""): default labels, no NA.
FromGrid(g) ==
    LET rows == Len(g)
        cols == IF rows = 0 THEN 0 ELSE Len(g[1])
    IN  [index   |-> [i \in 1..rows |-> i - 1],
         columns |-> [j \in 1..cols |-> j - 1],
         values  |-> [i \in 1..rows |-> [j \in 1..cols |-> Str(g[i][j])]]]

\* df.iloc[keep, :] for a list of row positions.
ILocRows(df, keep) ==
    [index   |-> [k \in 1..Len(keep) |-> df.index[keep[k] + 1]],
     columns |-> df.columns,
     values  |-> [k \in 1..Len(keep) |-> df.values[keep[k] + 1]]]

\* df.iloc[:, keep] for a list of column positions.
ILocCols(df, keep) ==
    [index   |-> df.index,
     columns |-> [k \in 1..Len(keep) |-> df.columns[keep[k] + 1]],
     values  |-> [i \in 1..NRows(df) |-> [k \in 1..Len(keep) |-> df.values[i][keep[k] + 1]]]]

\* Position of a label in a list of unique labels.
PosOf(labels, l) == (CHOOSE k \in 1..Len(labels) : labels[k] = l) - 1

\* df.loc[selected, :] and df.loc[:, selected] for lists of labels.
LocRows(df, selected) ==
    ILocRows(df, [k \in 1..Len(selected) |-> PosOf(df.index, selected[k])])
LocCols(df, selected) ==
    ILocCols(df, [k \in 1..Len(selected) |-> PosOf(df.columns, selected[k])])

\* df.reset_index(drop=True): the row labels become 0..n-1, the columns keep theirs.
ResetIndex(df) == [df EXCEPT !.index = [i \in 1..NRows(df) |-> i - 1]]

\* df.isna().all(axis=1)[i] and df.isna().all(axis=0)[j]: true of an empty row or column.
RowAllNA(df, i) == \A j \in 0..NCols(df) - 1 : At(df, i, j).na
ColAllNA(df, j) == \A i \in 0..NRows(df) - 1 : At(df, i, j).na

\* The number of NA cells of a row and of a column.
RowNACount(df, i) == Cardinality({j \in 0..NCols(df) - 1 : At(df, i, j).na})
ColNACount(df, j) == Cardinality({i \in 0..NRows(df) - 1 : At(df, i, j).na})

-----------------------------------------------------------------------------
(* Segmentation: src/utils.py, locate_table_titles .. find_tables_in_spreadsheet *)

\* str(cell).strip(): the cells of the grids drawn below carry no surrounding
\* whitespace except PaddedTitle, which strips to the title it pads.
PaddedTitle == "  DISCOUNT RATE "
Strip(s) == IF s = PaddedTitle THEN "DISCOUNT RATE" ELSE s

\* The scan of locate_table_titles from cell k of the row-major order on.
RECURSIVE ScanTitles(_, _)
ScanTitles(df, k) ==
    LET cols == NCols(df)
        r == k \div cols
        c == k % cols
        cell == Strip(At(df, r, c).s)
    IN  IF cols = 0 \/ k >= NRows(df) * cols THEN <<>>
        ELSE (IF cell \in Range(TABLE_TITLES) THEN <<(<<r, c, cell>>)>> ELSE <<>>)
             \o ScanTitles(df, k + 1)

locate_table_titles(df) == SortPositions(Range(ScanTitles(df, 0)))

\* Mutant of calculate_row_boundaries: every title row runs to the end of the sheet.
calculate_row_boundaries_ToEnd(title_positions, total_rows) ==
    [r \in {p[1] : p \in Range(title_positions)} |-> total_rows]

\* row -> exclusive end row: the next title row, or total_rows for the last.
calculate_row_boundaries(title_positions, total_rows) ==
    LET title_rows == SortInts({p[1] : p \in Range(title_positions)})
    IN  [r \in Range(title_rows) |->
            LET i == PosOf(title_rows, r)
            IN  IF i + 1 < Len(title_rows) THEN title_rows[i + 2] ELSE total_rows]

\* row -> the list of title columns on it, in the order of title_positions.
group_titles_by_row(title_positions) ==
    [r \in {p[1] : p \in Range(title_positions)} |->
        LET keep == KeepLoop(0, Len(title_positions),
                             [i \in 0..Len(title_positions) - 1 |-> title_positions[i + 1][1] = r])
        IN  [k \in 1..Len(keep) |-> title_positions[keep[k] + 1][2]]]

\* Mutant of determine_horizontal_boundaries: the segment's right edge is taken,
\* "left = seg_left" is forgotten.
determine_horizontal_boundaries_LeftForgotten(start_row, start_col, row_to_cols, total_cols) ==
    LET cols_on_this_row == SortInts(Range(row_to_cols[start_row]))
        n == Len(cols_on_this_row)
        later == {i \in 1..n : cols_on_this_row[i] > start_col}
    IN  IF n > 1 /\ later # {}
        THEN <<0, cols_on_this_row[CHOOSE i \in later : \A j \in later : i <= j]>>
        ELSE <<0, total_cols>>

\* Mutant of determine_horizontal_boundaries: segments are built for a row with
\* one title too ("len(cols_on_this_row) >= 1").
determine_horizontal_boundaries_SegmentsForOne(start_row, start_col, row_to_cols, total_cols) ==
    LET cols_on_this_row == SortInts(Range(row_to_cols[start_row]))
        n == Len(cols_on_this_row)
        later == {i \in 1..n : cols_on_this_row[i] > start_col}
    IN  <<start_col,
          IF later # {} THEN cols_on_this_row[CHOOSE i \in later : \A j \in later : i <= j]
          ELSE total_cols>>

\* The (left, right) of the first segment that contains start_col, else the full width.
determine_horizontal_boundaries(start_row, start_col, row_to_cols, total_cols) ==
    LET cols_on_this_row == SortInts(Range(row_to_cols[start_row]))
        n == Len(cols_on_this_row)
        segments == [i \in 1..n |->
                        <<cols_on_this_row[i],
                          IF i < n THEN cols_on_this_row[i + 1] ELSE total_cols>>]
        hits == {i \in 1..n : segments[i][1] <= start_col /\ start_col < segments[i][2]}
    IN  IF n > 1 /\ hits # {}
        THEN segments[CHOOSE i \in hits : \A j \in hits : i <= j]
        ELSE <<0, total_cols>>

\* df.iloc[top:bottom, left:right], "" -> NA, dropna(how="all") on rows and then
\* on columns, reset_index(drop=True).
extract_table_block(df, top, bottom, left, right) ==
    LET rowPos == PySlice([i \in 1..NRows(df) |-> i - 1], top, bottom)
        colPos == PySlice([j \in 1..NCols(df) |-> j - 1], left, right)
        cut == ILocCols(ILocRows(df, rowPos), colPos)
        b0 == [cut EXCEPT !.values =
                  [i \in 1..NRows(cut) |-> [j \in 1..NCols(cut) |->
                      IF cut.values[i][j] = Str("") THEN NA ELSE cut.values[i][j]]]]
        b1 == ILocRows(b0, KeepLoop(0, NRows(b0), [i \in 0..NRows(b0) - 1 |-> ~RowAllNA(b0, i)]))
        b2 == ILocCols(b1, KeepLoop(0, NCols(b1), [j \in 0..NCols(b1) - 1 |-> ~ColAllNA(b1, j)]))
    IN  ResetIndex(b2)

\* Mutant of ResolveTitle: the count of a title starts at 1.
ResolveTitle_FromOne(title_counts, base_title) ==
    IF base_title \in DOMAIN title_counts
    THEN LET n == title_counts[base_title] + 1
         IN  [counts |-> [title_counts EXCEPT ![base_title] = n],
              title  |-> base_title \o " (" \o ToString(n) \o ")"]
    ELSE [counts |-> [t \in DOMAIN title_counts \cup {base_title} |->
                         IF t = base_title THEN 1 ELSE title_counts[t]],
          title  |-> base_title]

\* Lines 126-131: the display name of the next table of base_title, and the counts after.
ResolveTitle(title_counts, base_title) ==
    IF base_title \in DOMAIN title_counts
    THEN LET n == title_counts[base_title] + 1
         IN  [counts |-> [title_counts EXCEPT ![base_title] = n],
              title  |-> base_title \o " (" \o ToString(n) \o ")"]
    ELSE [counts |-> [t \in DOMAIN title_counts \cup {base_title} |->
                         IF t = base_title THEN 0 ELSE title_counts[t]],
          title  |-> base_title]

\* Minimum kept-block size (block.shape[0] >= 2 and block.shape[1] >= 2).
MinRows == 2
MinCols == 2

\* One iteration of the loop of find_tables_in_spreadsheet for anchor pos; st holds
\* already_used, extracted_tables, title_counts and log, the locals of every
\* iteration so far.
FindTablesStep(df, row_to_cols, row_boundaries, st, pos) ==
    LET rows == NRows(df)
        cols == NCols(df)
        start_row == pos[1]
        start_col == pos[2]
        base_title == pos[3]
    IN  IF st.already_used[<<start_row, start_col>>]
        THEN [st EXCEPT !.log = Append(@, [anchor |-> pos, skipped |-> TRUE, title |-> "",
                                           top |-> 0, bottom |-> 0, left |-> 0, right |-> 0,
                                           kept |-> FALSE])]
        ELSE LET named == ResolveTitle(st.title_counts, base_title)
                 top == start_row
                 bottom == row_boundaries[start_row]
                 lr == determine_horizontal_boundaries(start_row, start_col, row_to_cols, cols)
                 left == lr[1]
                 right == lr[2]
                 blk == extract_table_block(df, top, bottom, left, right)
                 kept == NRows(blk) >= MinRows /\ NCols(blk) >= MinCols
             IN  [already_used |->
                     IF kept
                     THEN [cell \in DOMAIN st.already_used |->
                             \/ st.already_used[cell]
                             \/ /\ top <= cell[1] /\ cell[1] < bottom
                                /\ left <= cell[2] /\ cell[2] < right]
                     ELSE st.already_used,
                  extracted_tables |->
                     IF kept THEN DictSet(st.extracted_tables, named.title, blk)
                     ELSE st.extracted_tables,
                  title_counts |-> named.counts,
                  log |-> Append(st.log, [anchor |-> pos, skipped |-> FALSE,
                                          title |-> named.title,
                                          top |-> top, bottom |-> bottom,
                                          left |-> left, right |-> right,
                                          kept |-> kept])]

RECURSIVE FindTablesLoop(_, _, _, _, _, _)
FindTablesLoop(df, title_positions, row_to_cols, row_boundaries, st, i) ==
    IF i > Len(title_positions) THEN st
    ELSE FindTablesLoop(df, title_positions, row_to_cols, row_boundaries,
                        FindTablesStep(df, row_to_cols, row_boundaries, st, title_positions[i]),
                        i + 1)

\* The state of find_tables_in_spreadsheet at its return; extracted_tables is
\* what it returns.
find_tables_in_spreadsheet(df) ==
    LET rows == NRows(df)
        cols == NCols(df)
        title_positions == locate_table_titles(df)
        row_to_cols == group_titles_by_row(title_positions)
        row_boundaries == calculate_row_boundaries(title_positions, rows)
        st0 == [already_used |-> [cell \in (0..rows - 1) \X (0..cols - 1) |-> FALSE],
                extracted_tables |-> EmptyDict,
                title_counts |-> <<>>,
                log |-> <<>>]
    IN  FindTablesLoop(df, title_positions, row_to_cols, row_boundaries, st0, 1)

-----------------------------------------------------------------------------
(* Cleaning: src/utils.py, filter_rows_columns .. process_excel_file *)

\* The default thresholds of clean_up_table: 0.6 is MaxEmptyNum / MaxEmptyDen.
MaxEmptyNum == 3
MaxEmptyDen == 5
DefaultBlankStreak == 1

\* df.isna().mean(...) <= ratio for na NA cells out of n.  The mean of nothing is
\* NaN, and NaN <= ratio is False.  For n > 0 the float na / n is the double
\* nearest to the fraction, so the comparison with the double 0.6 agrees with the
\* comparison of the fractions at every size modelled here.
MeanAtMost(na, n, num, den) == n > 0 /\ na * den <= num * n

\* Mutant of filter_rows_columns: a row or column is kept only when its NA fraction
\* is below the ratio ("<" for "<=").
filter_rows_columns_Strict(df, rowNum, rowDen, colNum, colDen) ==
    LET keep_rows == KeepLoop(0, NRows(df),
                        [i \in 0..NRows(df) - 1 |->
                            NCols(df) > 0 /\ RowNACount(df, i) * rowDen < rowNum * NCols(df)])
        d1 == ILocRows(df, keep_rows)
        keep_cols == KeepLoop(0, NCols(d1),
                        [j \in 0..NCols(d1) - 1 |->
                            NRows(d1) > 0 /\ ColNACount(d1, j) * colDen < colNum * NRows(d1)])
    IN  ILocCols(d1, keep_cols)

\* Rows whose NA fraction is at most the row ratio, then, on what is left, columns
\* whose NA fraction is at most the column ratio.
filter_rows_columns(df, rowNum, rowDen, colNum, colDen) ==
    LET keep_rows == KeepLoop(0, NRows(df),
                        [i \in 0..NRows(df) - 1 |->
                            MeanAtMost(RowNACount(df, i), NCols(df), rowNum, rowDen)])
        d1 == ILocRows(df, keep_rows)
        keep_cols == KeepLoop(0, NCols(d1),
                        [j \in 0..NCols(d1) - 1 |->
                            MeanAtMost(ColNACount(d1, j), NRows(d1), colNum, colDen)])
    IN  ILocCols(d1, keep_cols)

\* Mutant of LeadingLoop: the run is cut once it reaches the tolerance
\* ("run >= max_blank_streak").
RECURSIVE LeadingLoop_AtLeast(_, _, _, _, _)
LeadingLoop_AtLeast(pattern, i, run, start, max_blank_streak) ==
    IF i >= Len(pattern) THEN start
    ELSE IF ~pattern[i + 1] THEN start
    ELSE LeadingLoop_AtLeast(pattern, i + 1, run + 1,
                             IF run + 1 >= max_blank_streak THEN i + 1 ELSE start,
                             max_blank_streak)

\* The loop "for i in range(len(pattern))" of trim_blank_edges over the leading
\* run: the value of start when the loop ends.
RECURSIVE LeadingLoop(_, _, _, _, _)
LeadingLoop(pattern, i, run, start, max_blank_streak) ==
    IF i >= Len(pattern) THEN start
    ELSE IF ~pattern[i + 1] THEN start
    ELSE LeadingLoop(pattern, i + 1, run + 1,
                     IF run + 1 > max_blank_streak THEN i + 1 ELSE start,
                     max_blank_streak)

\* The same loop over reversed(pattern): the value of end when the loop ends.
RECURSIVE TrailingLoop(_, _, _, _, _)
TrailingLoop(pattern, i, run, end, max_blank_streak) ==
    LET reversed_pattern == [k \in 1..Len(pattern) |-> pattern[Len(pattern) + 1 - k]]
    IN  IF i >= Len(reversed_pattern) THEN end
        ELSE IF ~reversed_pattern[i + 1] THEN end
        ELSE TrailingLoop(pattern, i + 1, run + 1,
                          IF run + 1 > max_blank_streak
                          THEN Len(pattern) - 1 - (i + 1) ELSE end,
                          max_blank_streak)

trim_blank_edges(data, by_rows, max_blank_streak) ==
    LET pattern == IF by_rows
                   THEN [i \in 1..NRows(data) |-> RowAllNA(data, i - 1)]
                   ELSE [j \in 1..NCols(data) |-> ColAllNA(data, j - 1)]
        labels == IF by_rows THEN data.index ELSE data.columns
        start == LeadingLoop(pattern, 0, 0, 0, max_blank_streak)
        end == TrailingLoop(pattern, 0, 0, Len(pattern) - 1, max_blank_streak)
        selected == PySlice(labels, start, end + 1)
    IN  IF by_rows THEN LocRows(data, selected) ELSE LocCols(data, selected)

\* clean_up_table with its default arguments.
clean_up_table(table) ==
    LET d1 == filter_rows_columns(table, MaxEmptyNum, MaxEmptyDen, MaxEmptyNum, MaxEmptyDen)
        d2 == trim_blank_edges(d1, TRUE, DefaultBlankStreak)
        d3 == trim_blank_edges(d2, FALSE, DefaultBlankStreak)
    IN  ResetIndex(d3)

\* str(cell): pd.NA prints as "<NA>".
PyStr(cell) == IF cell.na THEN "<NA>" ELSE cell.s

convert_table_to_list(table) ==
    [i \in 1..NRows(table) |-> [j \in 1..NCols(table) |-> PyStr(table.values[i][j])]]

\* The loop of process_excel_file over raw_tables.items().
clean_tables(raw_tables) ==
    [keys |-> raw_tables.keys,
     val  |-> [title \in Range(raw_tables.keys) |->
                  convert_table_to_list(clean_up_table(raw_tables.val[title]))]]

\* process_excel_file on bytes that decode to the grid g.
process_excel_file(g) ==
    clean_tables(find_tables_in_spreadsheet(FromGrid(g)).extracted_tables)

-----------------------------------------------------------------------------
(* SpecPipeline: one processing run over each grid of a bounded family *)

\* The grids are GridRows x GridCols.  Up to MaxAnchors cells hold a title cell:
\* in row-major order they repeat one title cell, or alternate between two.
\* Every other cell is filled by one of three patterns.
GridRows == 4
GridCols == 4
MaxAnchors == 3

\* "full": every other cell holds data; "empty": every other cell is blank;
\* "header": the other cells of a row that holds a title are blank, the rest data.
Fills == {"full", "empty", "header"}

\* Strictly increasing row-major cell numbers of the anchors.
AnchorCells ==
    UNION {{a \in [1..k -> 0..GridRows * GridCols - 1] :
                \A i \in 1..k - 1 : a[i] < a[i + 1]} : k \in 0..MaxAnchors}

\* The title cells of the anchors, in row-major order: one title as typed on every
\* anchor, or a title with surrounding whitespace alternating with it.
TitleCells(k, alternate) ==
    [n \in 1..k |-> IF alternate /\ n % 2 = 1 THEN PaddedTitle ELSE "INITIAL INVESTMENT"]

MakeGrid(a, t, fill) ==
    LET titleRows == {a[i] \div GridCols : i \in DOMAIN a}
    IN  [i \in 1..GridRows |-> [j \in 1..GridCols |->
            LET k == (i - 1) * GridCols + (j - 1)
            IN  IF \E n \in DOMAIN a : a[n] = k
                THEN t[CHOOSE n \in DOMAIN a : a[n] = k]
                ELSE IF fill = "empty" \/ (fill = "header" /\ (i - 1) \in titleRows)
                     THEN ""
                     ELSE "x"]]

NoRun == [already_used |-> <<>>, extracted_tables |-> EmptyDict,
          title_counts |-> <<>>, log |-> <<>>]

InitPipe ==
    /\ \E a \in AnchorCells : \E alternate \in BOOLEAN : \E fill \in Fills :
          grid = MakeGrid(a, TitleCells(Len(a), alternate), fill)
    /\ pc = "start"
    /\ raw = NoRun
    /\ final = EmptyDict
    /\ block = 0 /\ cpc = "off" /\ cleaned = 0 /\ recleaned = 0 /\ trimArgs = 0 /\ trimmed = 0
    /\ db = 0 /\ upl = 0 /\ q = 0 /\ hist = 0

\* raw_tables = find_tables_in_spreadsheet(df)
FindTables ==
    /\ pc = "start"
    /\ raw' = find_tables_in_spreadsheet(FromGrid(grid))
    /\ pc' = "found"
    /\ UNCHANGED <<grid, final, cleanVars, serverVars>>

\* for title, block in raw_tables.items(): final_tables[title] = ...; return final_tables
CleanTables ==
    /\ pc = "found"
    /\ final' = clean_tables(raw.extracted_tables)
    /\ pc' = "done"
    /\ UNCHANGED <<grid, raw, cleanVars, serverVars>>

NextPipe == FindTables \/ CleanTables

SpecPipeline == InitPipe /\ [][NextPipe]_vars

-----------------------------------------------------------------------------
(* Claims about one processing run (SpecPipeline) *)

GridCells == (0..Len(grid) - 1) \X (0..Len(grid[1]) - 1)
TotalRows == Len(grid)
TotalCols == Len(grid[1])

\* The anchors of the grid, read off the grid itself: the cells whose stripped
\* content is a catalog title.
Anchors == {cell \in GridCells : Strip(grid[cell[1] + 1][cell[2] + 1]) \in Range(TABLE_TITLES)}
AnchorRows == {cell[1] : cell \in Anchors}
ColsOn(r) == {cell[2] : cell \in {a \in Anchors : a[1] = r}}
Least(S) == CHOOSE x \in S : \A y \in S : x <= y

\* The iterations of the loop that emitted a table.
Emitted == {i \in DOMAIN raw.log : raw.log[i].kept}
InRect(e, cell) ==
    /\ e.top <= cell[1] /\ cell[1] < e.bottom
    /\ e.left <= cell[2] /\ cell[2] < e.right

\* C1: no two emitted tables have source rectangles that share a grid cell, and
\* the cells marked used are exactly the cells of the emitted rectangles.
C1_NoOverlap ==
    pc = "found" =>
        \A cell \in GridCells :
            /\ Cardinality({i \in Emitted : InRect(raw.log[i], cell)}) <= 1
            /\ raw.already_used[cell] <=> \E i \in Emitted : InRect(raw.log[i], cell)

\* Two tables emitted side by side on one anchor row and a third one below them.
C1_Witness ==
    /\ pc = "found"
    /\ \E i, j, k \in Emitted :
          /\ i # j
          /\ raw.log[i].top = raw.log[j].top
          /\ raw.log[k].top > raw.log[i].top

\* C5: the loop visits every anchor once, in row-major order, and gives the
\* anchor at (row, col) the rows [row, next anchor row or total_rows) and the
\* columns [0, total_cols) when it is alone on its row, else [col, next title
\* column on the row or total_cols).
C5_Rectangles ==
    pc = "found" =>
        /\ Len(raw.log) = Cardinality(Anchors)
        /\ \A i \in DOMAIN raw.log :
              LET e == raw.log[i]
                  row == e.anchor[1]
                  col == e.anchor[2]
                  below == {r \in AnchorRows : r > row}
                  right == {c \in ColsOn(row) : c > col}
              IN  /\ <<row, col>> \in Anchors
                  /\ ~e.skipped
                  /\ i > 1 => PosLess(raw.log[i - 1].anchor, e.anchor)
                  /\ e.top = row
                  /\ e.bottom = IF below = {} THEN TotalRows ELSE Least(below)
                  /\ e.left = IF Cardinality(ColsOn(row)) = 1 THEN 0 ELSE col
                  /\ e.right = IF Cardinality(ColsOn(row)) = 1 \/ right = {}
                               THEN TotalCols ELSE Least(right)

\* A title alone on its row above another anchor row, and a row shared by two titles.
C5_Witness ==
    /\ pc = "found"
    /\ \E r1, r2 \in AnchorRows :
          /\ Cardinality(ColsOn(r1)) = 1
          /\ \E c \in ColsOn(r1) : c > 0
          /\ \E r \in AnchorRows : r > r1 + 1
          /\ Cardinality(ColsOn(r2)) >= 2

\* The catalog title of an anchor, and the iterations of the loop for title T.
Occurrences(T) == {i \in DOMAIN raw.log : raw.log[i].anchor[3] = T}
Rank(T, i) == Cardinality({j \in Occurrences(T) : j < i})
ExpectedName(T, k) == IF k = 0 THEN T ELSE T \o " (" \o ToString(k) \o ")"

\* C6: when every occurrence of a catalog title T is kept, the k-th occurrence in
\* row-major order is emitted under the name T for k = 0 and "T (k)" for k >= 1;
\* and no two tables emitted by one run share a name.
C6_Names ==
    pc = "found" =>
        /\ \A n \in DOMAIN TABLE_TITLES :
              LET T == TABLE_TITLES[n]
              IN  (\A i \in Occurrences(T) : raw.log[i].kept) =>
                     \A i \in Occurrences(T) :
                        /\ raw.log[i].title = ExpectedName(T, Rank(T, i))
                        /\ HasKey(raw.extracted_tables, ExpectedName(T, Rank(T, i)))
        /\ \A i, j \in Emitted : i # j => raw.log[i].title # raw.log[j].title
        /\ Len(raw.extracted_tables.keys) = Cardinality(Emitted)
        /\ \A i \in Emitted : HasKey(raw.extracted_tables, raw.log[i].title)

\* Three kept occurrences of one title: "T", "T (1)", "T (2)".
C6_Witness ==
    /\ pc = "found"
    /\ Cardinality(Occurrences("INITIAL INVESTMENT")) = 3
    /\ \A i \in Occurrences("INITIAL INVESTMENT") : raw.log[i].kept
    /\ raw.extracted_tables.keys =
          <<"INITIAL INVESTMENT", "INITIAL INVESTMENT (1)", "INITIAL INVESTMENT (2)">>

\* The horizontal spans the loop gave to the titles of row r.
SpansOn(r) == {<<raw.log[i].left, raw.log[i].right>> : i \in {j \in DOMAIN raw.log : raw.log[j].anchor[1] = r}}
Covered(r) == UNION {sp[1]..sp[2] - 1 : sp \in SpansOn(r)}
SpansDisjoint(r) ==
    \A i, j \in DOMAIN raw.log :
        (i # j /\ raw.log[i].anchor[1] = r /\ raw.log[j].anchor[1] = r) =>
            \/ raw.log[i].right <= raw.log[j].left
            \/ raw.log[j].right <= raw.log[i].left

\* C8 as claimed: on every anchor row the spans of its titles are pairwise
\* disjoint and together cover the whole column axis [0, total_cols), the
\* columns to the left of the first title included.
C8_PartitionWholeAxis ==
    pc = "found" =>
        \A r \in AnchorRows : SpansDisjoint(r) /\ Covered(r) = 0..TotalCols - 1

\* C8 amended: on every anchor row the spans are pairwise disjoint, each holds
\* exactly one title column of the row (its own), and together they cover
\* [0, total_cols) when the row holds one title and [first title column,
\* total_cols) when it holds several: the columns to the left of the first of
\* several titles belong to no span.
C8_PartitionFromFirstTitle ==
    pc = "found" =>
        \A r \in AnchorRows :
            /\ SpansDisjoint(r)
            /\ \A i \in DOMAIN raw.log :
                  raw.log[i].anchor[1] = r =>
                     {c \in ColsOn(r) : raw.log[i].left <= c /\ c < raw.log[i].right}
                        = {raw.log[i].anchor[2]}
            /\ Covered(r) = IF Cardinality(ColsOn(r)) = 1 THEN 0..TotalCols - 1
                            ELSE Least(ColsOn(r))..TotalCols - 1

\* A row with two titles whose first title is not in column 0, and a row with one
\* title that is not in column 0.
C8_Witness ==
    /\ pc = "found"
    /\ \E r \in AnchorRows : Cardinality(ColsOn(r)) >= 2 /\ Least(ColsOn(r)) > 0
    /\ \E r \in AnchorRows : Cardinality(ColsOn(r)) = 1 /\ Least(ColsOn(r)) > 0

\* C2: every table process_excel_file returns has at least 2 rows and at least 2
\* columns.
C2_MinimumSize ==
    pc = "done" =>
        \A name \in Range(final.keys) :
            /\ Len(final.val[name]) >= MinRows
            /\ \A i \in DOMAIN final.val[name] : Len(final.val[name][i]) >= MinCols

-----------------------------------------------------------------------------
(* SpecClean: the cleaner applied to every block of a bounded family *)

\* The blocks have at most MaxBlockCells cells, each NA or a string; labels are
\* 0..n-1 on both axes.  trim_blank_edges is called with a tolerance up to MaxStreak.
MaxBlockCells == 10
MaxStreak == 2

BlockShapes ==
    {sh \in (0..MaxBlockCells) \X (0..MaxBlockCells) : sh[1] * sh[2] <= MaxBlockCells}

InitClean ==
    /\ \E sh \in BlockShapes : \E v \in [1..sh[1] -> [1..sh[2] -> {NA, Str("x")}]] :
          block = [index   |-> [i \in 1..sh[1] |-> i - 1],
                   columns |-> [j \in 1..sh[2] |-> j - 1],
                   values  |-> v]
    /\ cpc = "start"
    /\ cleaned = 0
    /\ recleaned = 0
    /\ trimArgs = 0
    /\ trimmed = 0
    /\ grid = 0 /\ pc = "off" /\ raw = 0 /\ final = 0
    /\ db = 0 /\ upl = 0 /\ q = 0 /\ hist = 0

\* cleaned = clean_up_table(block)
CleanOnce ==
    /\ cpc = "start"
    /\ cleaned' = clean_up_table(block)
    /\ cpc' = "once"
    /\ UNCHANGED <<block, recleaned, trimArgs, trimmed, pipeVars, serverVars>>

\* recleaned = clean_up_table(cleaned)
CleanTwice ==
    /\ cpc = "once"
    /\ recleaned' = clean_up_table(cleaned)
    /\ cpc' = "twice"
    /\ UNCHANGED <<block, cleaned, trimArgs, trimmed, pipeVars, serverVars>>

\* trimmed = trim_blank_edges(block, by_rows, max_blank_streak)
Trim ==
    /\ cpc = "start"
    /\ \E by_rows \in BOOLEAN : \E max_blank_streak \in 0..MaxStreak :
          /\ trimArgs' = [by_rows |-> by_rows, max_blank_streak |-> max_blank_streak]
          /\ trimmed' = trim_blank_edges(block, by_rows, max_blank_streak)
    /\ cpc' = "trimmed"
    /\ UNCHANGED <<block, cleaned, recleaned, pipeVars, serverVars>>

NextClean == CleanOnce \/ CleanTwice \/ Trim

SpecClean == InitClean /\ [][NextClean]_vars

-----------------------------------------------------------------------------
(* Claims about the cleaner (SpecClean) *)

\* C7 as claimed: cleaning the output of clean_up_table again returns it unchanged.
C7_Idempotent == cpc = "twice" => recleaned = cleaned

\* The blank flags of the rows (by_rows) or columns of a frame, read off its cells.
BlankFlags(df, by_rows) ==
    IF by_rows
    THEN [i \in 1..NRows(df) |-> \A j \in 1..NCols(df) : df.values[i][j] = NA]
    ELSE [j \in 1..NCols(df) |-> \A i \in 1..NRows(df) : df.values[i][j] = NA]
\* The lengths of the leading and of the trailing run of blanks.
LeadRun(flags) ==
    CHOOSE k \in 0..Len(flags) :
        (\A i \in 1..k : flags[i]) /\ (k = Len(flags) \/ ~flags[k + 1])
TrailRun(flags) ==
    CHOOSE k \in 0..Len(flags) :
        (\A i \in 1..k : flags[Len(flags) + 1 - i]) /\ (k = Len(flags) \/ ~flags[Len(flags) - k])

\* A block that is already clean: it has a row and a column, no row and no column
\* has a blank fraction above 0.6, and no leading or trailing run of fully blank
\* rows or columns is longer than the tolerance 1.
AlreadyClean(df) ==
    /\ NRows(df) >= 1 /\ NCols(df) >= 1
    /\ \A i \in 1..NRows(df) :
          Cardinality({j \in 1..NCols(df) : df.values[i][j] = NA}) * MaxEmptyDen
             <= MaxEmptyNum * NCols(df)
    /\ \A j \in 1..NCols(df) :
          Cardinality({i \in 1..NRows(df) : df.values[i][j] = NA}) * MaxEmptyDen
             <= MaxEmptyNum * NRows(df)
    /\ \A by_rows \in BOOLEAN :
          /\ LeadRun(BlankFlags(df, by_rows)) <= DefaultBlankStreak
          /\ TrailRun(BlankFlags(df, by_rows)) <= DefaultBlankStreak

\* C7 amended: clean_up_table returns an already clean block unchanged.
C7_CleanBlockUnchanged == (cpc = "once" /\ AlreadyClean(block)) => cleaned = block

\* An already clean block with blank cells, among them a row that is exactly 0.6 blank.
C7_Witness ==
    /\ cpc = "once"
    /\ AlreadyClean(block)
    /\ NRows(block) >= 2
    /\ \E i \in 1..NRows(block) :
          Cardinality({j \in 1..NCols(block) : block.values[i][j] = NA}) * MaxEmptyDen
             = MaxEmptyNum * NCols(block)

\* C9: with tolerance t, trim_blank_edges removes the whole leading run of fully
\* blank rows (columns) exactly when it is longer than t, the same for the
\* trailing run, and keeps every other row (column) in place and unchanged; the
\* leading and trailing blank runs of the result are at most t long.
C9_TrimEdges ==
    cpc = "trimmed" =>
        LET by_rows == trimArgs.by_rows
            t == trimArgs.max_blank_streak
            flags == BlankFlags(block, by_rows)
            n == Len(flags)
            lead == LeadRun(flags)
            trail == TrailRun(flags)
            first == IF lead > t THEN lead + 1 ELSE 1
            last == IF trail > t THEN n - trail ELSE n
            keptPos == IF first > last THEN <<>> ELSE [k \in 1..last - first + 1 |-> first + k - 1]
            out == BlankFlags(trimmed, by_rows)
        IN  /\ by_rows =>
                /\ trimmed.index = [k \in DOMAIN keptPos |-> block.index[keptPos[k]]]
                /\ trimmed.values = [k \in DOMAIN keptPos |-> block.values[keptPos[k]]]
                /\ trimmed.columns = block.columns
            /\ ~by_rows =>
                /\ trimmed.columns = [k \in DOMAIN keptPos |-> block.columns[keptPos[k]]]
                /\ trimmed.values = [i \in 1..NRows(block) |->
                                        [k \in DOMAIN keptPos |-> block.values[i][keptPos[k]]]]
                /\ trimmed.index = block.index
            /\ LeadRun(out) <= t
            /\ TrailRun(out) <= t

\* A leading run longer than the tolerance is removed while a shorter trailing run
\* is kept, with blank rows between the first and last non-blank rows.
C9_Witness ==
    /\ cpc = "trimmed"
    /\ trimArgs.by_rows
    /\ trimArgs.max_blank_streak = 1
    /\ LeadRun(BlankFlags(block, TRUE)) = 2
    /\ TrailRun(BlankFlags(block, TRUE)) = 1
    /\ NRows(trimmed) = NRows(block) - 2
    /\ NRows(trimmed) >= 4

-----------------------------------------------------------------------------
(* The HTTP layer: src/main.py *)

\* The strings the requests and the stored tables are built from.  str.lower(),
\* the substring test "a in b", unquote() and float() are tabulated over them; a
\* name "T (k)" is handled through its base T and its suffix.
Suffix(k) == " (" \o ToString(k) \o ")"

\* An uploaded sheet is a stack of up to MaxSections sections of two rows.
MaxSections == 2

LowerWord ==
    [w \in {"INITIAL INVESTMENT", "INVEST", "REVENUE", "REV",
            "initial investment", "invest", "revenue", "rev", "note", "cost"} |->
        CASE w = "INITIAL INVESTMENT" -> "initial investment"
          [] w = "INVEST" -> "invest"
          [] w = "REVENUE" -> "revenue"
          [] w = "REV" -> "rev"
          [] OTHER -> w]

\* s.lower()
Lower(s) ==
    IF s \in DOMAIN LowerWord THEN LowerWord[s]
    ELSE LET split == {<<w, k>> \in (DOMAIN LowerWord) \X (1..MaxSections) : s = w \o Suffix(k)}
         IN  IF split = {} THEN s
             ELSE LET wk == CHOOSE x \in split : TRUE IN LowerWord[wk[1]] \o Suffix(wk[2])

\* Proper fragments among the lower-case words.
FragmentOf == {<<"invest", "initial investment">>, <<"rev", "revenue">>}

\* a in b, for lower-case a and b
Contains(a, b) ==
    LET inWord(w) == a = w \/ a = "" \/ <<a, w>> \in FragmentOf
    IN  \/ a = b
        \/ inWord(b)
        \/ \E w \in Range(LowerWord) : \E k \in 1..MaxSections : b = w \o Suffix(k) /\ inWord(w)

\* urllib.parse.unquote(param)
Unquote(param) == IF param = "initial%20investment " THEN "initial investment " ELSE param
\* str.strip() of a request parameter or of a first cell
StripText(t) == IF t = "initial investment " THEN "initial investment" ELSE Strip(t)

\* float(cell): <<TRUE, value>>, or <<FALSE, 0>> when it raises
ParseFloat(cell) ==
    CASE cell = "1" -> <<TRUE, 1>>
      [] cell = "2" -> <<TRUE, 2>>
      [] OTHER -> <<FALSE, 0>>

clean_parameter(param) ==
    LET decoded == Unquote(param)
    IN  IF decoded # param THEN StripText(decoded) ELSE StripText(param)

\* The first key of the dict, in order, with ok[key]; "" stands for no key.
FirstKey(keys, ok) ==
    LET hits == {i \in DOMAIN keys : ok[keys[i]]}
    IN  IF hits = {} THEN "" ELSE keys[CHOOSE i \in hits : \A j \in hits : i <= j]

\* The passes of find_table_name over the dict d.
ExactPass(d, cleaned_name) == IF HasKey(d, cleaned_name) THEN cleaned_name ELSE ""
NoCasePass(d, cleaned_name) ==
    FirstKey(d.keys, [k \in Range(d.keys) |-> Lower(k) = Lower(cleaned_name)])
PartialPass(d, cleaned_name) ==
    FirstKey(d.keys, [k \in Range(d.keys) |->
                         \/ Contains(Lower(cleaned_name), Lower(k))
                         \/ Contains(Lower(k), Lower(cleaned_name))])

\* find_row_name: <<TRUE, index>>, or <<FALSE, available_rows[:10]>> for the 404.
find_row_name(table_data, requested_row_name) ==
    LET cleaned_row_name == clean_parameter(requested_row_name)
        n == Len(table_data)
        hasFirst(i) == Len(table_data[i]) > 0
        first_cell(i) == StripText(table_data[i][1])
        exact == {i \in 1..n : hasFirst(i) /\ first_cell(i) = cleaned_row_name}
        nocase == {i \in 1..n : hasFirst(i) /\ Lower(first_cell(i)) = Lower(cleaned_row_name)}
        partial == {i \in 1..n : hasFirst(i) /\
                        \/ Contains(Lower(cleaned_row_name), Lower(first_cell(i)))
                        \/ Contains(Lower(first_cell(i)), Lower(cleaned_row_name))}
        least(S) == CHOOSE i \in S : \A j \in S : i <= j
        named == KeepLoop(0, n, [i \in 0..n - 1 |-> hasFirst(i + 1) /\ first_cell(i + 1) # ""])
    IN  IF exact # {} THEN <<TRUE, least(exact) - 1>>
        ELSE IF nocase # {} THEN <<TRUE, least(nocase) - 1>>
        ELSE IF partial # {} THEN <<TRUE, least(partial) - 1>>
        ELSE <<FALSE, PySlice([k \in 1..Len(named) |-> first_cell(named[k] + 1)], 0, 10)>>

\* The sum of the numeric cells of a row after its first cell.
RECURSIVE SumCells(_, _)
SumCells(row, j) ==
    IF j > Len(row) THEN 0
    ELSE (IF ParseFloat(row[j])[1] THEN ParseFloat(row[j])[2] ELSE 0) + SumCells(row, j + 1)

\* HTTPException(status, detail) as http_error_handler answers it; the names a 404
\* lists in its detail are kept apart in available.
HttpError(status, detail, available) ==
    [status |-> status, body |-> [error |-> detail, available |-> available]]
EmptyStoreError == HttpError(400, "No Excel file uploaded yet", <<>>)
\* An exception no handler catches: the server answers 500.
ServerError == HttpError(500, "Internal Server Error", <<>>)

\* The answer of get_table_details for table_data.
TableDetails(actual_table_name, table_data) ==
    IF Len(table_data) = 0
    THEN HttpError(400, "Table has no data", <<>>)
    ELSE [status |-> 200,
          body |-> [table_name |-> actual_table_name,
                    row_names |-> [i \in 1..Len(table_data) |->
                        IF Len(table_data[i]) = 0
                        THEN "<empty_row_" \o ToString(i - 1) \o ">"
                        ELSE IF StripText(table_data[i][1]) = ""
                        THEN "<empty_cell_" \o ToString(i - 1) \o ">"
                        ELSE StripText(table_data[i][1])]]]

\* The answer of debug_table for table_data.
DebugTable(table_name, actual_table_name, table_data) ==
    [status |-> 200,
     body |-> [requested_name |-> table_name,
               actual_table_name |-> actual_table_name,
               num_rows |-> Len(table_data),
               num_cols |-> IF Len(table_data) > 0 THEN Len(table_data[1]) ELSE 0,
               first_5_rows |-> PySlice(table_data, 0, 5),
               all_first_cells |-> [i \in 1..Len(table_data) |->
                   IF Len(table_data[i]) > 0 THEN table_data[i][1] ELSE "EMPTY_ROW"]]]

\* The answer of row_sum for table_data.
RowSum(actual_table_name, table_data, row_name) ==
    LET found == find_row_name(table_data, row_name)
        row == table_data[found[2] + 1]
    IN  IF ~found[1]
        THEN HttpError(404, "Row not found", found[2])
        ELSE [status |-> 200,
              body |-> [table_name |-> actual_table_name,
                        row_name |-> StripText(row[1]),
                        sum |-> SumCells(row, 2)]]

-----------------------------------------------------------------------------
(* Spec: uploads and queries over the shared dict db *)

\* A section is two rows; its first cell is a title cell or a note.
SectionHeads == {"INITIAL INVESTMENT", "note"}
SectionGrid(head) == << <<head, "1">>, <<"rev", "2">> >>
RECURSIVE StackSections(_)
StackSections(heads) ==
    IF heads = <<>> THEN <<>> ELSE SectionGrid(Head(heads)) \o StackSections(Tail(heads))
SampleGrids ==
    {StackSections(h) : h \in UNION {[1..n -> SectionHeads] : n \in 1..MaxSections}}

\* An upload: the file name and what pd.read_excel makes of the bytes (decoded is
\* FALSE when it raises).
FileNames == {"book.xls", "Book.XLSX", "notes.csv"}
LowerName(fname) == IF fname = "Book.XLSX" THEN "book.xlsx" ELSE fname
EndsWith(fname, suffix) == <<fname, suffix>> \in {<<"book.xls", ".xls">>, <<"book.xlsx", ".xlsx">>}
Contents == {[decoded |-> FALSE, grid |-> <<>>]} \cup {[decoded |-> TRUE, grid |-> g] : g \in SampleGrids}

\* The parameters of the queries.
RequestedTables == {"INITIAL INVESTMENT", "initial%20investment ", "INVEST", "REVENUE"}
RequestedRows == {"rev", "REV", "cost"}
Queries ==
    {[kind |-> "list_tables", table_name |-> "", row_name |-> ""]}
    \cup {[kind |-> k, table_name |-> t, row_name |-> ""] :
              k \in {"debug_table", "get_table_details"}, t \in RequestedTables}
    \cup {[kind |-> "row_sum", table_name |-> t, row_name |-> r] :
              t \in RequestedTables, r \in RequestedRows}

NoResponse == [status |-> 0, body |-> <<>>]
NoFile == [filename |-> "", content |-> [decoded |-> FALSE, grid |-> <<>>]]
IdleUpload == [pc |-> "idle", file |-> NoFile, tables |-> EmptyDict, resp |-> NoResponse]
IdleQuery == [pc |-> "idle", kind |-> "", table_name |-> "", row_name |-> "", actual |-> "",
              resp |-> NoResponse, uploaded |-> FALSE]

\* db is created empty.  hist.last is the table set of the last completed
\* replacement, hist.succeeded whether an upload has answered 201.
Init ==
    /\ db = EmptyDict
    /\ upl = IdleUpload
    /\ q = IdleQuery
    /\ hist = [last |-> EmptyDict, succeeded |-> FALSE]
    /\ grid = 0 /\ pc = "off" /\ raw = 0 /\ final = 0
    /\ block = 0 /\ cpc = "off" /\ cleaned = 0 /\ recleaned = 0 /\ trimArgs = 0 /\ trimmed = 0

\* db.update(tables)
RECURSIVE DictUpdate(_, _, _)
DictUpdate(d, other, i) ==
    IF i > Len(other.keys) THEN d
    ELSE DictUpdate(DictSet(d, other.keys[i], other.val[other.keys[i]]), other, i + 1)

\* upload_excel, lines 91-95: the extension check, then "await file.read()".
UploadStart ==
    /\ upl.pc = "idle"
    /\ \E fname \in FileNames : \E content \in Contents :
          LET lowered == LowerName(fname)
          IN  IF ~(EndsWith(lowered, ".xls") \/ EndsWith(lowered, ".xlsx"))
              THEN upl' = [IdleUpload EXCEPT
                              !.resp = HttpError(400, "Only .xls/.xlsx files allowed", <<>>)]
              ELSE upl' = [pc |-> "read", file |-> [filename |-> fname, content |-> content],
                           tables |-> EmptyDict, resp |-> NoResponse]
    /\ UNCHANGED <<db, q, hist, pipeVars, cleanVars>>

\* Mutant of UploadProcess: db is cleared before process_excel_file is tried.
UploadProcess_ClearFirst ==
    /\ upl.pc = "read"
    /\ db' = EmptyDict
    /\ IF upl.file.content.decoded
       THEN upl' = [upl EXCEPT !.pc = "clear", !.file = NoFile,
                               !.tables = process_excel_file(upl.file.content.grid)]
       ELSE upl' = [IdleUpload EXCEPT
                       !.resp = HttpError(500, "Error processing Excel", <<>>)]
    /\ UNCHANGED <<q, hist, pipeVars, cleanVars>>

\* upload_excel, lines 96-99: process_excel_file raises, or returns the tables.
UploadProcess ==
    /\ upl.pc = "read"
    /\ IF upl.file.content.decoded
       THEN upl' = [upl EXCEPT !.pc = "clear", !.file = NoFile,
                               !.tables = process_excel_file(upl.file.content.grid)]
       ELSE upl' = [IdleUpload EXCEPT
                       !.resp = HttpError(500, "Error processing Excel", <<>>)]
    /\ UNCHANGED <<db, q, hist, pipeVars, cleanVars>>

\* upload_excel, line 101: db.clear()
UploadClear ==
    /\ upl.pc = "clear"
    /\ db' = EmptyDict
    /\ upl' = [upl EXCEPT !.pc = "update"]
    /\ UNCHANGED <<q, hist, pipeVars, cleanVars>>

\* upload_excel, line 102: db.update(tables)
UploadUpdate ==
    /\ upl.pc = "update"
    /\ db' = DictUpdate(db, upl.tables, 1)
    /\ upl' = [upl EXCEPT !.pc = "respond"]
    /\ hist' = [hist EXCEPT !.last = upl.tables]
    /\ UNCHANGED <<q, pipeVars, cleanVars>>

\* upload_excel, line 103: return TableListResponse(tables=list(db.keys()))
UploadRespond ==
    /\ upl.pc = "respond"
    /\ upl' = [IdleUpload EXCEPT !.resp = [status |-> 201, body |-> [tables |-> db.keys]]]
    /\ hist' = [hist EXCEPT !.succeeded = TRUE]
    /\ UNCHANGED <<db, q, pipeVars, cleanVars>>

\* The table sets a reader may observe: the last completed one, and the one the
\* upload in progress is installing.
LegalTableSets == {hist.last} \cup (IF upl.pc \in {"clear", "update"} THEN {upl.tables} ELSE {})

\* A request for one of the query endpoints arrives and is handed to a worker thread.
QueryStart ==
    /\ q.pc \in {"idle", "done"}
    /\ \E query \in Queries :
          q' = [IdleQuery EXCEPT !.pc = "ensure", !.kind = query.kind,
                                 !.table_name = query.table_name, !.row_name = query.row_name]
    /\ UNCHANGED <<db, upl, hist, pipeVars, cleanVars>>

\* ensure_uploaded()
QueryEnsure ==
    /\ q.pc = "ensure"
    /\ q' = IF db.keys = <<>>
            THEN [q EXCEPT !.pc = "done", !.resp = EmptyStoreError,
                                  !.uploaded = hist.succeeded]
            ELSE [q EXCEPT !.pc = IF q.kind = "list_tables" THEN "keys" ELSE "exact",
                                  !.uploaded = hist.succeeded]
    /\ UNCHANGED <<db, upl, hist, pipeVars, cleanVars>>

\* list_tables, line 109: return TableListResponse(tables=list(db.keys()))
QueryKeys ==
    /\ q.pc = "keys"
    /\ q' = [q EXCEPT !.pc = "done", !.resp = [status |-> 200, body |-> [tables |-> db.keys]]]
    /\ UNCHANGED <<db, upl, hist, pipeVars, cleanVars>>

\* find_table_name, lines 26-30: the exact match.
QueryExact ==
    /\ q.pc = "exact"
    /\ LET hit == ExactPass(db, clean_parameter(q.table_name))
       IN  q' = IF hit # "" THEN [q EXCEPT !.pc = "get", !.actual = hit]
                ELSE [q EXCEPT !.pc = "nocase"]
    /\ UNCHANGED <<db, upl, hist, pipeVars, cleanVars>>

\* find_table_name, lines 33-35: the case-insensitive pass over db.keys().
QueryNoCase ==
    /\ q.pc = "nocase"
    /\ LET hit == NoCasePass(db, clean_parameter(q.table_name))
       IN  q' = IF hit # "" THEN [q EXCEPT !.pc = "get", !.actual = hit]
                ELSE [q EXCEPT !.pc = "partial"]
    /\ UNCHANGED <<db, upl, hist, pipeVars, cleanVars>>

\* find_table_name, lines 38-44: the partial pass over db.keys(), else the 404.
QueryPartial ==
    /\ q.pc = "partial"
    /\ LET hit == PartialPass(db, clean_parameter(q.table_name))
       IN  q' = IF hit # "" THEN [q EXCEPT !.pc = "get", !.actual = hit]
                ELSE [q EXCEPT !.pc = "done",
                                      !.resp = HttpError(404, "Table not found", db.keys)]
    /\ UNCHANGED <<db, upl, hist, pipeVars, cleanVars>>

\* table_data = db[actual_table_name] and the rest of the handler, which reads
\* table_data alone.  A missing key raises KeyError.
QueryGet ==
    /\ q.pc = "get"
    /\ q' = IF ~HasKey(db, q.actual)
            THEN [q EXCEPT !.pc = "done", !.resp = ServerError]
            ELSE LET table_data == db.val[q.actual]
                 IN  [q EXCEPT
                         !.pc = "done",
                         !.resp = CASE q.kind = "debug_table" ->
                                         DebugTable(q.table_name, q.actual, table_data)
                                    [] q.kind = "get_table_details" ->
                                         TableDetails(q.actual, table_data)
                                    [] OTHER -> RowSum(q.actual, table_data, q.row_name)]
    /\ UNCHANGED <<db, upl, hist, pipeVars, cleanVars>>

Next ==
    \/ UploadStart \/ UploadProcess \/ UploadClear \/ UploadUpdate \/ UploadRespond
    \/ QueryStart \/ QueryEnsure \/ QueryKeys \/ QueryExact \/ QueryNoCase \/ QueryPartial
    \/ QueryGet

Spec == Init /\ [][Next]_vars

-----------------------------------------------------------------------------
(* Claims about the store (Spec) *)

\* The positions at which the query thread reads db next.
ReadPcs == {"ensure", "keys", "exact", "nocase", "partial", "get"}

\* C3: every read of db a query makes observes the entire previous table set or
\* the entire new one.
C3_ReadsSeeWholeTableSet ==
    [][(q.pc \in ReadPcs /\ q'.pc # q.pc) => db \in LegalTableSets]_vars

\* C4: an upload that fails leaves db as it was: whenever no replacement is in
\* progress, db holds the tables of the most recent successful upload.
C4_FailedUploadKeepsStore ==
    upl.pc \in {"idle", "read"} => db = hist.last

\* An upload has failed on undecodable bytes after an earlier upload stored
\* tables, and a query still answers from them.
C4_Witness ==
    /\ upl.pc = "idle"
    /\ upl.resp.status = 500
    /\ hist.last.keys # <<>>
    /\ q.pc = "done" /\ q.kind = "row_sum" /\ q.resp.status = 200

\* C10: a query answers EmptyStore only if no upload had succeeded when it
\* checked; after a successful upload list_tables answers 200 and the other
\* queries answer 200 or 404.
C10_EmptyStoreOnlyBeforeUpload ==
    q.pc = "done" =>
        /\ q.resp = EmptyStoreError => ~q.uploaded
        /\ q.uploaded => IF q.kind = "list_tables" THEN q.resp.status = 200
                         ELSE q.resp.status \in {200, 404}

====
